---- MODULE Spec2Model ----
(***************************************************************************)
(* The activity and wakeup checks of autosuspend                           *)
(* (src/autosuspend/checks/{kodi,systemd,wakeup}.py).                      *)
(*                                                                         *)
(* One check instance is constructed, then the external source it reads    *)
(* changes step by step and check() is called on it any number of times.   *)
(* `result` holds the outcome of the call that has just returned; it is    *)
(* consumed (set back to NoResult) as soon as the external source changes, *)
(* so a recorded outcome always stands next to the source state and the    *)
(* arguments it was computed from.                                         *)
(***************************************************************************)
EXTENDS Integers, Sequences, FiniteSets, TLC

VARIABLES
    check,      \* the constructed check instance (its attributes), or NoCheck
    reply,      \* Kodi: the body the JSON-RPC endpoint answers with
    sessions,   \* logind: the sessions in the order the bus returns them
    units,      \* systemd: unit name -> Timer properties of the listed units
    file,       \* state of the path the File check reads
    proc,       \* behaviour of the command the Command check runs
    matches,    \* what evaluate() of the XPath checks returns
    timestamp,  \* the reference time handed to the last check(timestamp)
    now,        \* what datetime.now(tz=utc) returned during the last call
    result,     \* outcome of the last create()/check(), or NoResult
    calls       \* how many times check() was called on the instance

vars == <<check, reply, sessions, units, file, proc, matches, timestamp, now, result, calls>>

(***************************************************************************)
(* Bounds of the model.                                                    *)
(***************************************************************************)
MaxPlayers  == 1    \* longest list of active players in a reply
MaxSessions == 2    \* most login sessions on the bus
MaxLen      == 3    \* most symbols in a file / in a command's output
MaxMatches  == 2    \* most XPath matches
MaxTime     == 2    \* largest reference time / clock reading
MaxCalls    == 2    \* most calls of check() followed on one instance

(***************************************************************************)
(* Outcomes of a call.                                                     *)
(***************************************************************************)
NoResult      == [tag |-> "pending"]
None          == [tag |-> "None"]
Reason(r)     == [tag |-> "return", reason |-> r]
Instant(i)    == [tag |-> "return", instant |-> i]
Raise(e)      == [tag |-> "raise", exc |-> e]

\* create() of class cls ended with the exception r
Failed(cls, r) == [tag |-> "raise", exc |-> r.exc, create |-> cls]

NoCheck       == [class |-> "none"]
NoTime        == -1

Min(S)        == CHOOSE m \in S : \A o \in S : m <= o

(***************************************************************************)
(* JSON values as response.json() yields them, and the Python operations   *)
(* the Kodi checks apply to them.                                          *)
(***************************************************************************)
JNull         == [t |-> "null"]
JBool(b)      == [t |-> "bool", b |-> b]
JNum(n)       == [t |-> "number", n |-> n]
JStr(s)       == [t |-> "string", s |-> s]
JList(k)      == [t |-> "list", len |-> k]
JObj(f)       == [t |-> "object", members |-> f]

NotJson       == [json |-> FALSE]
Json(v)       == [json |-> TRUE, value |-> v]

\* bool(v)
Truthy(v) ==
    CASE v.t = "null"   -> FALSE
      [] v.t = "bool"   -> v.b
      [] v.t = "number" -> v.n # 0
      [] v.t = "string" -> v.s # ""
      [] v.t = "list"   -> v.len > 0
      [] v.t = "object" -> DOMAIN v.members # {}

\* v[key] for a string key: the value, or the exception Python raises
Subscript(v, key) ==
    IF v.t = "object"
    THEN IF key \in DOMAIN v.members
         THEN [ok |-> TRUE, v |-> v.members[key]]
         ELSE [ok |-> FALSE, exc |-> "KeyError"]
    ELSE [ok |-> FALSE, exc |-> "TypeError"]

\* v.get(key): dict.get, an AttributeError on anything that is not a dict
Get(v, key) ==
    IF v.t = "object"
    THEN [ok |-> TRUE, v |-> IF key \in DOMAIN v.members THEN v.members[key] ELSE JNull]
    ELSE [ok |-> FALSE, exc |-> "AttributeError"]

IdleTimes     == {60, 120}
IdleTimeKey(n) == "System.IdleTime(" \o ToString(n) \o ")"
PlayingKey    == "Player.Playing"

Leaves        == {JNull, JBool(TRUE), JBool(FALSE), JNum(0), JStr("x")}
Keys          == {PlayingKey} \cup {IdleTimeKey(n) : n \in IdleTimes}
Objects       == UNION {{JObj(f) : f \in [K -> Leaves]} : K \in SUBSET Keys}
Results       == Leaves \cup {JList(k) : k \in 0..MaxPlayers} \cup Objects
Bodies        ==
    {NotJson}
    \cup {Json(v) : v \in Leaves \cup {JList(0)}}
    \cup {Json(JObj(<<>>)), Json(JObj([k \in {"error"} |-> JStr("x")]))}
    \cup {Json(JObj([k \in {"result"} |-> r])) : r \in Results}

Urls          == {"http://localhost:8080/jsonrpc"}

(***************************************************************************)
(* kodi.py: Kodi                                                           *)
(***************************************************************************)
\* Kodi.__init__: the mode selects the request built onto the url
Kodi_init(name, url, suspend_while_paused) ==
    [class |-> "Kodi", name |-> name,
     suspend_while_paused |-> suspend_while_paused,
     url |-> IF suspend_while_paused
             THEN [base |-> url, method |-> "XBMC.GetInfoBooleans", booleans |-> PlayingKey]
             ELSE [base |-> url, method |-> "Player.GetActivePlayers", booleans |-> ""]]

\* Kodi._safe_request_result: self.request().json()["result"]
Kodi_safe_request_result(self, body) ==
    IF ~body.json
    THEN [ok |-> FALSE, exc |-> "TemporaryCheckError"]
    ELSE LET r == Subscript(body.value, "result")
         IN  IF r.ok THEN r ELSE [ok |-> FALSE, exc |-> "TemporaryCheckError"]

\* Kodi.check with the two interpretations exchanged
Kodi_check_swapped(self, body) ==
    LET r == Kodi_safe_request_result(self, body)
    IN  IF ~r.ok THEN Raise(r.exc)
        ELSE IF ~self.suspend_while_paused
             THEN LET g == Get(r.v, PlayingKey)
                  IN  IF ~g.ok THEN Raise(g.exc)
                      ELSE IF Truthy(g.v) THEN Reason("Kodi actively playing media")
                           ELSE None
             ELSE IF Truthy(r.v) THEN Reason("Kodi currently playing") ELSE None

\* Kodi.check
Kodi_check(self, body) ==
    LET r == Kodi_safe_request_result(self, body)
    IN  IF ~r.ok THEN Raise(r.exc)
        ELSE IF self.suspend_while_paused
             THEN LET g == Get(r.v, PlayingKey)
                  IN  IF ~g.ok THEN Raise(g.exc)
                      ELSE IF Truthy(g.v) THEN Reason("Kodi actively playing media")
                           ELSE None
             ELSE IF Truthy(r.v) THEN Reason("Kodi currently playing") ELSE None

(***************************************************************************)
(* kodi.py: KodiIdleTime                                                   *)
(***************************************************************************)
\* KodiIdleTime.__init__
KodiIdleTime_init(name, url, idle_time) ==
    [class |-> "KodiIdleTime", name |-> name,
     url |-> [base |-> url, method |-> "XBMC.GetInfoBooleans",
              booleans |-> IdleTimeKey(idle_time)],
     idle_time |-> idle_time]

\* the key read with the default threshold in place of the configured one
KodiIdleTime_key_default(self) == IdleTimeKey(120)

\* the key KodiIdleTime.check reads from the reply
KodiIdleTime_key(self) == IdleTimeKey(self.idle_time)

\* KodiIdleTime.check
KodiIdleTime_check(self, body) ==
    IF ~body.json
    THEN Raise("TemporaryCheckError")
    ELSE LET r == Subscript(body.value, "result")
         IN  IF ~r.ok THEN Raise("TemporaryCheckError")
             ELSE LET b == Subscript(r.v, KodiIdleTime_key(self))
                  IN  IF ~b.ok THEN Raise("TemporaryCheckError")
                      ELSE IF ~Truthy(b.v) THEN Reason("Someone interacts with Kodi")
                           ELSE None

(***************************************************************************)
(* systemd.py: next_timer_executions and SystemdTimer                      *)
(*                                                                         *)
(* Unit names and patterns are sequences of characters.  Instants of this  *)
(* check are counted in microseconds, the unit of the two Timer            *)
(* properties.                                                             *)
(***************************************************************************)
TimerSuffix   == <<".", "t", "i", "m", "e", "r">>
ServiceSuffix == <<".", "s", "e", "r", "v", "i", "c", "e">>
UnitNames     == {<<"a">> \o TimerSuffix, <<"b", "a">> \o TimerSuffix,
                  <<"a">> \o ServiceSuffix}
Realtimes     == {0, 3, 5}
Monotonics    == {0, 2}
TimerProps    == [NextElapseUSecRealtime : Realtimes, NextElapseUSecMonotonic : Monotonics]
Patterns      == {<<"a">>, <<"b">>, <<"a", ".">>, <<".", "a">>, <<"x">>}

\* str.endswith
EndsWith(s, suffix) ==
    /\ Len(s) >= Len(suffix)
    /\ SubSeq(s, Len(s) - Len(suffix) + 1, Len(s)) = suffix

\* Pattern.match(name): the expression has to match at the start of the
\* name and may stop before its end; "." stands for any one character
Match(pattern, name) ==
    /\ Len(pattern) <= Len(name)
    /\ \A i \in 1..Len(pattern) : pattern[i] = "." \/ pattern[i] = name[i]

\* next_time with the monotonic property looked at first
next_time_monotonic_first(props, utcnow) ==
    IF props.NextElapseUSecMonotonic # 0
    THEN utcnow + props.NextElapseUSecMonotonic
    ELSE IF props.NextElapseUSecRealtime # 0
         THEN props.NextElapseUSecRealtime
         ELSE 0

\* the next_time computed for one timer, 0 standing for Python's None
next_time(props, utcnow) ==
    IF props.NextElapseUSecRealtime # 0
    THEN props.NextElapseUSecRealtime
    ELSE IF props.NextElapseUSecMonotonic # 0
         THEN utcnow + props.NextElapseUSecMonotonic
         ELSE 0

\* next_timer_executions: name -> next elapse of the listed .timer units
next_timer_executions(listed, utcnow) ==
    LET timers == {n \in DOMAIN listed : EndsWith(n, TimerSuffix)}
        found  == {n \in timers : next_time(listed[n], utcnow) # 0}
    IN  [n \in found |-> next_time(listed[n], utcnow)]

\* SystemdTimer.__init__
SystemdTimer_init(name, match) ==
    [class |-> "SystemdTimer", name |-> name, match |-> match]

\* SystemdTimer.check
SystemdTimer_check(self, listed, utcnow) ==
    LET executions == next_timer_executions(listed, utcnow)
        matching_executions ==
            {executions[n] : n \in {m \in DOMAIN executions : Match(self.match, m)}}
    IN  IF matching_executions = {} THEN None
        ELSE Instant(Min(matching_executions))

(***************************************************************************)
(* systemd.py: LogindSessionsIdle                                          *)
(***************************************************************************)
SessionIds    == 1..MaxSessions
SessionTypes  == {"tty", "x11"}
SessionStates == {"active", "closing"}
Session       == [id : SessionIds, Type : SessionTypes, State : SessionStates,
                  IdleHint : BOOLEAN]
TypesOptions  == {{"tty"}, {"tty", "x11"}}
StatesOptions == {{"active"}, {"active", "closing"}}

\* LogindSessionsIdle.__init__
LogindSessionsIdle_init(name, types, states) ==
    [class |-> "LogindSessionsIdle", name |-> name, types |-> types, states |-> states]

\* the loop without the filter on the session state
RECURSIVE LogindLoop_any_state(_, _, _)
LogindLoop_any_state(self, list, i) ==
    IF i > Len(list) THEN None
    ELSE IF list[i].Type \notin self.types THEN LogindLoop_any_state(self, list, i + 1)
    ELSE IF ~list[i].IdleHint
         THEN Reason("Login session " \o ToString(list[i].id) \o " is not idle")
         ELSE LogindLoop_any_state(self, list, i + 1)

\* the for loop of LogindSessionsIdle.check from position i on
RECURSIVE LogindLoop(_, _, _)
LogindLoop(self, list, i) ==
    IF i > Len(list) THEN None
    ELSE IF list[i].Type \notin self.types THEN LogindLoop(self, list, i + 1)
    ELSE IF list[i].State \notin self.states THEN LogindLoop(self, list, i + 1)
    ELSE IF ~list[i].IdleHint
         THEN Reason("Login session " \o ToString(list[i].id) \o " is not idle")
         ELSE LogindLoop(self, list, i + 1)

\* LogindSessionsIdle.check; bus.error is list_logind_sessions raising
\* LogindDBusException, which _list_logind_sessions turns into
\* TemporaryCheckError
LogindSessionsIdle_check(self, bus) ==
    IF bus.error THEN Raise("TemporaryCheckError")
    ELSE LogindLoop(self, bus.list, 1)

(***************************************************************************)
(* Text, float() and the datetime conversions of wakeup.py.                *)
(*                                                                         *)
(* A text is a sequence of symbols: the characters "1", "2", " ", "x", the *)
(* line break "\n", and the words "inf" and "nan" taken as one symbol      *)
(* each.  Instants of the wakeup checks below are counted in seconds.      *)
(***************************************************************************)
Digits        == {"1", "2"}
TextAlphabet  == {"1", "2", " ", "x", "inf", "\n"}
MatchAlphabet == {"1", "2", "x", "inf"}

\* position of the first line break of a text, 0 when it has none
RECURSIVE FirstBreak(_, _)
FirstBreak(text, i) ==
    IF i > Len(text) THEN 0
    ELSE IF text[i] = "\n" THEN i
    ELSE FirstBreak(text, i + 1)

\* str.splitlines / bytes.splitlines: no line for an empty text, and none
\* after a final line break
RECURSIVE splitlines(_)
splitlines(text) ==
    IF text = <<>> THEN <<>>
    ELSE LET b == FirstBreak(text, 1)
         IN  IF b = 0 THEN <<text>>
             ELSE <<SubSeq(text, 1, b - 1)>> \o splitlines(SubSeq(text, b + 1, Len(text)))

\* str.strip / bytes.strip
RECURSIVE strip(_)
strip(s) ==
    IF s = <<>> THEN s
    ELSE IF Head(s) \in {" ", "\n"} THEN strip(Tail(s))
    ELSE IF s[Len(s)] \in {" ", "\n"} THEN strip(SubSeq(s, 1, Len(s) - 1))
    ELSE s

DigitValue(c) == IF c = "1" THEN 1 ELSE 2

RECURSIVE Decimal(_)
Decimal(s) ==
    IF s = <<>> THEN 0
    ELSE 10 * Decimal(SubSeq(s, 1, Len(s) - 1)) + DigitValue(s[Len(s)])

\* float(s) of a str or bytes: surrounding whitespace is ignored, "inf" and
\* "nan" are accepted
float(s) ==
    LET t == strip(s)
    IN  IF t = <<"inf">> THEN [ok |-> TRUE, kind |-> "inf"]
        ELSE IF t = <<"nan">> THEN [ok |-> TRUE, kind |-> "nan"]
        ELSE IF t # <<>> /\ \A i \in 1..Len(t) : t[i] \in Digits
             THEN [ok |-> TRUE, kind |-> "num", n |-> Decimal(t)]
             ELSE [ok |-> FALSE, exc |-> "ValueError"]

\* datetime.fromtimestamp(f, timezone.utc)
fromtimestamp(f) ==
    CASE f.kind = "inf" -> Raise("OverflowError")
      [] f.kind = "nan" -> Raise("ValueError")
      [] f.kind = "num" -> Instant(f.n)

TimedeltaUnits == {"days", "seconds", "microseconds", "milliseconds", "minutes",
                   "hours", "weeks"}

UnitSeconds(unit) ==
    CASE unit = "seconds" -> 1
      [] unit = "minutes" -> 60
      [] unit = "hours"   -> 3600
      [] unit = "days"    -> 86400
      [] unit = "weeks"   -> 604800

\* timedelta(**{unit: f}), a number of seconds when it succeeds
timedelta(unit, f) ==
    IF unit \notin TimedeltaUnits THEN [ok |-> FALSE, exc |-> "TypeError"]
    ELSE CASE f.kind = "inf" -> [ok |-> FALSE, exc |-> "OverflowError"]
           [] f.kind = "nan" -> [ok |-> FALSE, exc |-> "ValueError"]
           [] f.kind = "num" -> [ok |-> TRUE, seconds |-> f.n * UnitSeconds(unit)]

Times         == 0..MaxTime
Paths         == {"/var/run/wakeup"}
Commands      == {"next-wakeup"}

(***************************************************************************)
(* wakeup.py: File                                                         *)
(***************************************************************************)
\* File.__init__
File_init(name, path) == [class |-> "File", name |-> name, path |-> path]

\* File.check; f is the state of self._path
File_check(self, f) ==
    IF ~f.exists THEN None                             \* FileNotFoundError
    ELSE IF ~f.readable THEN Raise("TemporaryCheckError")   \* IOError
    ELSE LET lines == splitlines(f.text)
         IN  IF lines = <<>> THEN Raise("IndexError")
             ELSE LET v == float(strip(lines[1]))
                  IN  IF ~v.ok THEN Raise("TemporaryCheckError")
                      ELSE LET d == fromtimestamp(v)
                           IN  IF d = Raise("ValueError")
                               THEN Raise("TemporaryCheckError")
                               ELSE d

(***************************************************************************)
(* wakeup.py: Command                                                      *)
(***************************************************************************)
\* Command.__init__
Command_init(name, command) == [class |-> "Command", name |-> name, command |-> command]

\* raise_severe_if_command_not_found: the shell's exit status for a command
\* it could not find
raise_severe_if_command_not_found(returncode) == returncode = 127

\* Command.check; p is what running self._command does
Command_check(self, p) ==
    IF p.returncode # 0                                \* CalledProcessError
    THEN IF raise_severe_if_command_not_found(p.returncode)
         THEN Raise("SevereCheckError")
         ELSE Raise("TemporaryCheckError")
    ELSE LET lines == splitlines(p.stdout)
         IN  IF lines = <<>> THEN Raise("IndexError")
             ELSE LET output == lines[1]
                  IN  IF strip(output) = <<>> THEN None
                      ELSE LET v == float(strip(output))
                           IN  IF ~v.ok THEN Raise("TemporaryCheckError")
                               ELSE LET d == fromtimestamp(v)
                                    IN  IF d = Raise("ValueError")
                                        THEN Raise("TemporaryCheckError")
                                        ELSE d

(***************************************************************************)
(* wakeup.py: Periodic                                                     *)
(***************************************************************************)
UnitOptions   == {"seconds", "minutes", "fortnights"}
ValueOptions  == {<<"1">>, <<"2", "1">>, <<" ", "2">>, <<"x">>, <<"nan">>, <<"inf">>}
\* a configuration section: the options it has, and their values
PeriodicConfigs ==
    [options : SUBSET {"unit", "value"}, unit : UnitOptions, value : ValueOptions]

\* Periodic.__init__
Periodic_init(name, delta) == [class |-> "Periodic", name |-> name, delta |-> delta]

\* Periodic.create: the check it returns, or the exception it raises
Periodic_create(name, config) ==
    IF "unit" \notin config.options \/ "value" \notin config.options
    THEN Raise("ConfigurationError")                   \* KeyError
    ELSE LET v == float(config.value)
         IN  IF ~v.ok THEN Raise("ConfigurationError")      \* ValueError
             ELSE LET d == timedelta(config.unit, v)
                  IN  IF d.ok THEN Periodic_init(name, d.seconds)
                      ELSE IF d.exc \in {"ValueError", "KeyError", "TypeError"}
                           THEN Raise("ConfigurationError")
                           ELSE Raise(d.exc)

\* Periodic.check
Periodic_check(self, ts) == Instant(ts + self.delta)

(***************************************************************************)
(* wakeup.py: XPath and XPathDelta                                         *)
(***************************************************************************)
\* a match is a string (here the empty one or one of a single symbol) or an
\* element node
Str(s)        == [str |-> TRUE, s |-> s]
Node          == [str |-> FALSE]
MatchItems    == {Str(<<>>)} \cup {Str(<<c>>) : c \in MatchAlphabet} \cup {Node}

UNITS         == {"days", "seconds", "microseconds", "milliseconds", "minutes",
                  "hours", "weeks"}

\* XPath.__init__
XPath_init(name) == [class |-> "XPath", name |-> name]

\* XPathDelta.__init__: the check, or the ValueError for an unsupported unit
XPathDelta_init(name, unit) ==
    IF unit \notin UNITS THEN Raise("ValueError")
    ELSE [class |-> "XPathDelta", name |-> name, unit |-> unit]

\* XPathDelta.create
XPathDelta_create(name, unit) ==
    LET c == XPathDelta_init(name, unit)
    IN  IF c = Raise("ValueError") THEN Raise("ConfigurationError") ELSE c

\* XPath.convert_result
XPath_convert_result(self, m, ts) ==
    IF ~m.str THEN Raise("TypeError")
    ELSE LET v == float(m.s)
         IN  IF ~v.ok THEN Raise(v.exc) ELSE fromtimestamp(v)

\* XPathDelta.convert_result
XPathDelta_convert_result(self, m, ts) ==
    IF ~m.str THEN Raise("TypeError")
    ELSE LET v == float(m.s)
         IN  IF ~v.ok THEN Raise(v.exc)
             ELSE LET d == timedelta(self.unit, v)
                  IN  IF d.ok THEN Instant(ts + d.seconds) ELSE Raise(d.exc)

\* self.convert_result, by the class of self
convert_result(self, m, ts) ==
    IF self.class = "XPathDelta" THEN XPathDelta_convert_result(self, m, ts)
    ELSE XPath_convert_result(self, m, ts)

\* min(self.convert_result(m, timestamp) for m in matches) from position i
\* on, best being the smallest instant so far (NoTime before the first)
RECURSIVE MinOfConverted(_, _, _, _, _)
MinOfConverted(self, found, ts, i, best) ==
    IF i > Len(found) THEN Instant(best)
    ELSE LET c == convert_result(self, found[i], ts)
         IN  IF c.tag = "raise" THEN c
             ELSE MinOfConverted(self, found, ts, i + 1,
                                 IF best = NoTime \/ c.instant < best
                                 THEN c.instant ELSE best)

\* XPath.check; found is what self.evaluate() returned
XPath_check(self, found, ts) ==
    IF found = <<>> THEN None
    ELSE LET r == MinOfConverted(self, found, ts, 1, NoTime)
         IN  IF r.tag = "raise" /\ r.exc \in {"TypeError", "ValueError"}
             THEN Raise("TemporaryCheckError")
             ELSE r

(***************************************************************************)
(* The state machine.                                                      *)
(***************************************************************************)
Names         == {"check"}

Init ==
    /\ check = NoCheck
    /\ reply = NotJson
    /\ sessions = [error |-> FALSE, list |-> <<>>]
    /\ units = [n \in {} |-> 0]
    /\ file = [exists |-> FALSE, readable |-> TRUE, text |-> <<>>]
    /\ proc = [returncode |-> 0, stdout |-> <<>>]
    /\ matches = <<>>
    /\ timestamp = NoTime
    /\ now = NoTime
    /\ result = NoResult
    /\ calls = 0

sources == <<reply, sessions, units, file, proc, matches>>

\* the constructors and factories; a failed create() leaves no check
KodiCreate ==
    /\ check = NoCheck
    /\ \E n \in Names, u \in Urls, p \in BOOLEAN : check' = Kodi_init(n, u, p)
    /\ result' = NoResult
    /\ UNCHANGED <<sources, timestamp, now, calls>>

KodiIdleTimeCreate ==
    /\ check = NoCheck
    /\ \E n \in Names, u \in Urls, t \in IdleTimes : check' = KodiIdleTime_init(n, u, t)
    /\ result' = NoResult
    /\ UNCHANGED <<sources, timestamp, now, calls>>

LogindSessionsIdleCreate ==
    /\ check = NoCheck
    /\ \E n \in Names, ty \in TypesOptions, st \in StatesOptions :
        check' = LogindSessionsIdle_init(n, ty, st)
    /\ result' = NoResult
    /\ UNCHANGED <<sources, timestamp, now, calls>>

SystemdTimerCreate ==
    /\ check = NoCheck
    /\ \E n \in Names, m \in Patterns : check' = SystemdTimer_init(n, m)
    /\ result' = NoResult
    /\ UNCHANGED <<sources, timestamp, now, calls>>

FileCreate ==
    /\ check = NoCheck
    /\ \E n \in Names, p \in Paths : check' = File_init(n, p)
    /\ result' = NoResult
    /\ UNCHANGED <<sources, timestamp, now, calls>>

CommandCreate ==
    /\ check = NoCheck
    /\ \E n \in Names, c \in Commands : check' = Command_init(n, c)
    /\ result' = NoResult
    /\ UNCHANGED <<sources, timestamp, now, calls>>

PeriodicCreate ==
    /\ check = NoCheck
    /\ \E n \in Names, c \in PeriodicConfigs :
        LET r == Periodic_create(n, c)
        IN  IF "class" \in DOMAIN r
            THEN check' = r /\ result' = NoResult
            ELSE check' = check /\ result' = Failed("Periodic", r)
    /\ UNCHANGED <<sources, timestamp, now, calls>>

XPathCreate ==
    /\ check = NoCheck
    /\ \E n \in Names : check' = XPath_init(n)
    /\ result' = NoResult
    /\ UNCHANGED <<sources, timestamp, now, calls>>

XPathDeltaCreate ==
    /\ check = NoCheck
    /\ \E n \in Names, u \in UnitOptions :
        LET r == XPathDelta_create(n, u)
        IN  IF "class" \in DOMAIN r
            THEN check' = r /\ result' = NoResult
            ELSE check' = check /\ result' = Failed("XPathDelta", r)
    /\ UNCHANGED <<sources, timestamp, now, calls>>

\* the external source of the check changed: the last outcome is consumed
Changed ==
    /\ result' = NoResult
    /\ timestamp' = NoTime
    /\ now' = NoTime
    /\ UNCHANGED <<check, calls>>

KodiAnswers ==
    /\ check.class \in {"Kodi", "KodiIdleTime"}
    /\ \E b \in Bodies \ {reply} : reply' = b
    /\ Changed
    /\ UNCHANGED <<sessions, units, file, proc, matches>>

SessionOpens ==
    /\ check.class = "LogindSessionsIdle"
    /\ Len(sessions.list) < MaxSessions
    /\ \E s \in Session :
        /\ \A i \in 1..Len(sessions.list) : sessions.list[i].id # s.id
        /\ sessions' = [sessions EXCEPT !.list = Append(@, s)]
    /\ Changed
    /\ UNCHANGED <<reply, units, file, proc, matches>>

SessionCloses ==
    /\ check.class = "LogindSessionsIdle"
    /\ \E i \in 1..Len(sessions.list) :
        sessions' = [sessions EXCEPT
                        !.list = SubSeq(@, 1, i - 1) \o SubSeq(@, i + 1, Len(@))]
    /\ Changed
    /\ UNCHANGED <<reply, units, file, proc, matches>>

BusToggles ==
    /\ check.class = "LogindSessionsIdle"
    /\ sessions' = [sessions EXCEPT !.error = ~@]
    /\ Changed
    /\ UNCHANGED <<reply, units, file, proc, matches>>

UnitSet ==
    /\ check.class = "SystemdTimer"
    /\ \E n \in UnitNames, p \in TimerProps :
        /\ IF n \in DOMAIN units THEN units[n] # p ELSE TRUE
        /\ units' = [m \in DOMAIN units \cup {n} |-> IF m = n THEN p ELSE units[m]]
    /\ Changed
    /\ UNCHANGED <<reply, sessions, file, proc, matches>>

UnitRemoved ==
    /\ check.class = "SystemdTimer"
    /\ \E n \in DOMAIN units : units' = [m \in DOMAIN units \ {n} |-> units[m]]
    /\ Changed
    /\ UNCHANGED <<reply, sessions, file, proc, matches>>

FileWritten ==
    /\ check.class = "File"
    /\ \/ ~file.exists /\ file' = [file EXCEPT !.exists = TRUE, !.text = <<>>]
       \/ /\ file.exists
          /\ Len(file.text) < MaxLen
          /\ \E c \in TextAlphabet : file' = [file EXCEPT !.text = Append(@, c)]
    /\ Changed
    /\ UNCHANGED <<reply, sessions, units, proc, matches>>

FileRemoved ==
    /\ check.class = "File"
    /\ file.exists
    /\ file' = [file EXCEPT !.exists = FALSE, !.text = <<>>]
    /\ Changed
    /\ UNCHANGED <<reply, sessions, units, proc, matches>>

FileModeToggles ==
    /\ check.class = "File"
    /\ file' = [file EXCEPT !.readable = ~@]
    /\ Changed
    /\ UNCHANGED <<reply, sessions, units, proc, matches>>

CommandChanges ==
    /\ check.class = "Command"
    /\ \/ \E rc \in {0, 1, 127} \ {proc.returncode} :
            proc' = [proc EXCEPT !.returncode = rc]
       \/ /\ Len(proc.stdout) < MaxLen
          /\ \E c \in TextAlphabet : proc' = [proc EXCEPT !.stdout = Append(@, c)]
       \/ proc.stdout # <<>> /\ proc' = [proc EXCEPT !.stdout = <<>>]
    /\ Changed
    /\ UNCHANGED <<reply, sessions, units, file, matches>>

DocumentChanges ==
    /\ check.class \in {"XPath", "XPathDelta"}
    /\ \/ /\ Len(matches) < MaxMatches
          /\ \E m \in MatchItems : matches' = Append(matches, m)
       \/ matches # <<>> /\ matches' = <<>>
    /\ Changed
    /\ UNCHANGED <<reply, sessions, units, file, proc>>

\* check() is entered once more
Called ==
    /\ calls < MaxCalls
    /\ calls' = calls + 1

\* the calls of check()
KodiCheck ==
    /\ check.class = "Kodi"
    /\ Called
    /\ result' = Kodi_check(check, reply)
    /\ UNCHANGED <<check, sources, timestamp, now>>

KodiIdleTimeCheck ==
    /\ check.class = "KodiIdleTime"
    /\ Called
    /\ result' = KodiIdleTime_check(check, reply)
    /\ UNCHANGED <<check, sources, timestamp, now>>

LogindSessionsIdleCheck ==
    /\ check.class = "LogindSessionsIdle"
    /\ Called
    /\ result' = LogindSessionsIdle_check(check, sessions)
    /\ UNCHANGED <<check, sources, timestamp, now>>

SystemdTimerCheck ==
    /\ check.class = "SystemdTimer"
    /\ Called
    /\ \E ts \in Times, utcnow \in Times :
        /\ timestamp' = ts
        /\ now' = utcnow
        /\ result' = SystemdTimer_check(check, units, utcnow)
    /\ UNCHANGED <<check, sources>>

\* File.check keeping the outcome of the call in an attribute of the check
FileCheck_remembering ==
    /\ check.class = "File"
    /\ Called
    /\ \E ts \in Times :
        /\ timestamp' = ts
        /\ result' = File_check(check, file)
    /\ check' = [class |-> check.class, name |-> check.name, path |-> check.path,
                 last |-> result']
    /\ UNCHANGED <<sources, now>>

FileCheck ==
    /\ check.class = "File"
    /\ Called
    /\ \E ts \in Times :
        /\ timestamp' = ts
        /\ result' = File_check(check, file)
    /\ UNCHANGED <<check, sources, now>>

CommandCheck ==
    /\ check.class = "Command"
    /\ Called
    /\ \E ts \in Times :
        /\ timestamp' = ts
        /\ result' = Command_check(check, proc)
    /\ UNCHANGED <<check, sources, now>>

PeriodicCheck ==
    /\ check.class = "Periodic"
    /\ Called
    /\ \E ts \in Times :
        /\ timestamp' = ts
        /\ result' = Periodic_check(check, ts)
    /\ UNCHANGED <<check, sources, now>>

XPathCheck ==
    /\ check.class \in {"XPath", "XPathDelta"}
    /\ Called
    /\ \E ts \in Times :
        /\ timestamp' = ts
        /\ result' = XPath_check(check, matches, ts)
    /\ UNCHANGED <<check, sources, now>>

Next ==
    \/ KodiCreate \/ KodiIdleTimeCreate \/ LogindSessionsIdleCreate
    \/ SystemdTimerCreate \/ FileCreate \/ CommandCreate \/ PeriodicCreate
    \/ XPathCreate \/ XPathDeltaCreate
    \/ KodiAnswers \/ SessionOpens \/ SessionCloses \/ BusToggles
    \/ UnitSet \/ UnitRemoved \/ FileWritten \/ FileRemoved \/ FileModeToggles
    \/ CommandChanges \/ DocumentChanges
    \/ KodiCheck \/ KodiIdleTimeCheck \/ LogindSessionsIdleCheck
    \/ SystemdTimerCheck \/ FileCheck \/ CommandCheck \/ PeriodicCheck
    \/ XPathCheck

Spec == Init /\ [][Next]_vars

TypeOK ==
    /\ result.tag \in {"pending", "None", "return", "raise"}
    /\ timestamp \in Times \cup {NoTime}
    /\ now \in Times \cup {NoTime}
    /\ calls \in 0..MaxCalls

(***************************************************************************)
(* Properties of the Kodi checks.                                          *)
(***************************************************************************)
HasResult(body) ==
    /\ body.json
    /\ body.value.t = "object"
    /\ "result" \in DOMAIN body.value.members

ResultOf(body) == body.value.members["result"]

\* a reply the playback detector cannot interpret in the given mode
KodiMalformed(paused_mode, body) ==
    IF ~HasResult(body) THEN TRUE
    ELSE IF paused_mode
         THEN \/ ResultOf(body).t # "object"
              \/ PlayingKey \notin DOMAIN ResultOf(body).members
         ELSE ResultOf(body).t # "list"

\* a reply of the shape Kodi sends for the request of the given mode
KodiWellFormed(paused_mode, body) ==
    IF ~HasResult(body) THEN FALSE
    ELSE IF paused_mode
         THEN IF ResultOf(body).t # "object" THEN FALSE
              ELSE IF PlayingKey \notin DOMAIN ResultOf(body).members THEN FALSE
              ELSE ResultOf(body).members[PlayingKey].t = "bool"
         ELSE ResultOf(body).t = "list"

KodiCalled == check.class = "Kodi" /\ result # NoResult

\* C1: in both modes a reply that is not JSON, has no `result`, has no
\* `Player.Playing` inside `result` or has a `result` of the wrong type for
\* the mode makes Kodi.check raise TemporaryCheckError, never return nothing
\* and never raise anything else.
C1_MalformedReplyIsTemporaryError ==
    (KodiCalled /\ KodiMalformed(check.suspend_while_paused, reply))
        => result = Raise("TemporaryCheckError")

\* C6: on a well-formed reply Kodi.check returns "Kodi currently playing" iff
\* `result` is non-empty when suspend_while_paused is false, and "Kodi actively
\* playing media" iff `Player.Playing` is true when it is true, nothing
\* otherwise; the request sent is the one of the mode, and the mode never
\* changes after construction.
C6_WellFormedReplyInterpretedByMode ==
    /\ [](check.class = "Kodi" =>
            check.url.method = IF check.suspend_while_paused
                               THEN "XBMC.GetInfoBooleans"
                               ELSE "Player.GetActivePlayers")
    /\ []((KodiCalled /\ KodiWellFormed(check.suspend_while_paused, reply)) =>
            IF check.suspend_while_paused
            THEN result = IF ResultOf(reply).members[PlayingKey].b
                          THEN Reason("Kodi actively playing media") ELSE None
            ELSE result = IF ResultOf(reply).len > 0
                          THEN Reason("Kodi currently playing") ELSE None)
    /\ [][check.class = "Kodi" =>
            check'.suspend_while_paused = check.suspend_while_paused]_vars

\* a paused player (Player.Playing false) was reported idle in the mode that
\* allows suspending while paused
C6_Witness ==
    /\ KodiCalled
    /\ check.suspend_while_paused
    /\ KodiWellFormed(TRUE, reply)
    /\ ~ResultOf(reply).members[PlayingKey].b
    /\ result = None

KodiIdleTimeCalled == check.class = "KodiIdleTime" /\ result # NoResult

\* the reply carries the boolean queried for threshold n
HasIdleTime(body, n) ==
    IF ~HasResult(body) THEN FALSE
    ELSE IF ResultOf(body).t # "object" THEN FALSE
    ELSE IF IdleTimeKey(n) \notin DOMAIN ResultOf(body).members THEN FALSE
    ELSE ResultOf(body).members[IdleTimeKey(n)].t = "bool"

\* the reply is a JSON object without `result`, or its `result` object has
\* no entry for threshold n
LacksIdleTime(body, n) ==
    IF ~body.json THEN FALSE
    ELSE IF body.value.t # "object" THEN FALSE
    ELSE IF "result" \notin DOMAIN body.value.members THEN TRUE
    ELSE /\ ResultOf(body).t = "object"
         /\ IdleTimeKey(n) \notin DOMAIN ResultOf(body).members

\* C7: KodiIdleTime.check reads the key System.IdleTime(N) for the N that
\* was put into the request at construction; it returns "Someone interacts
\* with Kodi" iff that boolean is false and nothing iff it is true; a reply
\* without `result` or without that key raises TemporaryCheckError.
C7_IdleTimeKeyOfConfiguredThreshold ==
    check.class = "KodiIdleTime" =>
        /\ check.url.booleans = IdleTimeKey(check.idle_time)
        /\ (result # NoResult /\ HasIdleTime(reply, check.idle_time)) =>
              result = IF ResultOf(reply).members[IdleTimeKey(check.idle_time)].b
                       THEN None ELSE Reason("Someone interacts with Kodi")
        /\ (result # NoResult /\ LacksIdleTime(reply, check.idle_time)) =>
              result = Raise("TemporaryCheckError")

\* threshold 60: the reply says idle for 120 seconds but not idle for 60
C7_Witness ==
    /\ KodiIdleTimeCalled
    /\ check.idle_time = 60
    /\ HasIdleTime(reply, 60)
    /\ HasIdleTime(reply, 120)
    /\ ~ResultOf(reply).members[IdleTimeKey(60)].b
    /\ ResultOf(reply).members[IdleTimeKey(120)].b
    /\ result = Reason("Someone interacts with Kodi")

(***************************************************************************)
(* Properties of the login-session and timer checks.                       *)
(***************************************************************************)
\* the session counts: type and state allowed, and not idle
Qualifies(s) ==
    /\ s.Type \in check.types
    /\ s.State \in check.states
    /\ ~s.IdleHint

\* the session passes the two filters
Allowed(s) == s.Type \in check.types /\ s.State \in check.states

LogindCalled ==
    /\ check.class = "LogindSessionsIdle"
    /\ result # NoResult
    /\ ~sessions.error

\* C4: LogindSessionsIdle.check is busy iff some session has its Type in the
\* allowed types, its State in the allowed states and IdleHint false; the
\* reason names the first such session in bus order; sessions filtered out
\* by type or state never change the result; otherwise the result is nothing.
C4_BusyIffFirstQualifyingSession ==
    LogindCalled =>
        LET list == sessions.list
            Q    == {i \in 1..Len(list) : Qualifies(list[i])}
        IN  /\ result = IF Q = {} THEN None
                        ELSE Reason("Login session " \o ToString(list[Min(Q)].id)
                                    \o " is not idle")
            /\ result = LogindSessionsIdle_check(check,
                            [error |-> FALSE, list |-> SelectSeq(list, Allowed)])

\* the first session is not idle but filtered out by its state, the second
\* one is reported
C4_Witness ==
    /\ LogindCalled
    /\ Len(sessions.list) = 2
    /\ sessions.list[1].Type \in check.types
    /\ sessions.list[1].State \notin check.states
    /\ ~sessions.list[1].IdleHint
    /\ Qualifies(sessions.list[2])
    /\ result = Reason("Login session " \o ToString(sessions.list[2].id) \o " is not idle")

TimerCalled == check.class = "SystemdTimer" /\ result # NoResult

\* the timer units the scan has to consider: matched from the start of the
\* name and with one of the two properties set
Considered ==
    {n \in DOMAIN units :
        /\ EndsWith(n, TimerSuffix)
        /\ Match(check.match, n)
        /\ \/ units[n].NextElapseUSecRealtime # 0
           \/ units[n].NextElapseUSecMonotonic # 0}

\* the instant of a considered unit as the claim defines it
Elapse(n) ==
    IF units[n].NextElapseUSecRealtime # 0
    THEN units[n].NextElapseUSecRealtime
    ELSE now + units[n].NextElapseUSecMonotonic

\* C5: SystemdTimer.check returns the minimum next-elapse instant over the
\* timer units whose name matches the expression from its start and that
\* have an elapse time: the realtime property when non-zero, else now plus
\* the monotonic property when non-zero; nothing when no such unit remains.
C5_EarliestMatchingTimer ==
    TimerCalled =>
        result = IF Considered = {} THEN None
                 ELSE Instant(Min({Elapse(n) : n \in Considered}))

\* a matching unit has both properties set, its later realtime value is the
\* result, and an earlier timer that does not match is left out
C5_Witness ==
    /\ TimerCalled
    /\ \E n \in Considered :
        /\ units[n].NextElapseUSecRealtime # 0
        /\ units[n].NextElapseUSecMonotonic # 0
        /\ now + units[n].NextElapseUSecMonotonic < units[n].NextElapseUSecRealtime
        /\ result = Instant(units[n].NextElapseUSecRealtime)
        /\ \E o \in DOMAIN units :
            /\ EndsWith(o, TimerSuffix)
            /\ ~Match(check.match, o)
            /\ units[o].NextElapseUSecRealtime # 0
            /\ units[o].NextElapseUSecRealtime < units[n].NextElapseUSecRealtime

(***************************************************************************)
(* Properties of the wakeup checks of wakeup.py.                           *)
(***************************************************************************)
\* the first line of a non-empty text
FirstLine(text) ==
    IF FirstBreak(text, 1) = 0 THEN text
    ELSE SubSeq(text, 1, FirstBreak(text, 1) - 1)

\* a decimal number of seconds
IsDecimal(s) == s # <<>> /\ \A i \in 1..Len(s) : s[i] \in Digits

\* C2: File.check returns nothing iff the file does not exist, the instant
\* of the stripped first line iff the file exists and that line parses as
\* decimal seconds, and raises TemporaryCheckError in every other case where
\* the file exists (unparsable first line, no line at all, I/O error); no
\* other exception escapes.
C2_FileOutcomes ==
    (check.class = "File" /\ result # NoResult) =>
        IF ~file.exists THEN result = None
        ELSE IF /\ file.readable
                /\ file.text # <<>>
                /\ IsDecimal(strip(FirstLine(file.text)))
             THEN result = Instant(Decimal(strip(FirstLine(file.text))))
             ELSE result = Raise("TemporaryCheckError")

\* C3: Command.check returns nothing when the command exits with status zero
\* and its output is empty (zero bytes or a blank first line), the instant
\* when the first line is a number, raises TemporaryCheckError when the
\* first line is unparsable, and on a non-zero exit raises SevereCheckError
\* if the binary was not found and TemporaryCheckError otherwise; no other
\* exception escapes.
C3_CommandOutcomes ==
    (check.class = "Command" /\ result # NoResult) =>
        IF proc.returncode # 0
        THEN result = IF proc.returncode = 127 THEN Raise("SevereCheckError")
                      ELSE Raise("TemporaryCheckError")
        ELSE IF proc.stdout = <<>> THEN result = None
        ELSE IF strip(FirstLine(proc.stdout)) = <<>> THEN result = None
        ELSE IF IsDecimal(strip(FirstLine(proc.stdout)))
             THEN result = Instant(Decimal(strip(FirstLine(proc.stdout))))
             ELSE result = Raise("TemporaryCheckError")

XPathCalled == check.class \in {"XPath", "XPathDelta"} /\ result # NoResult

\* the match is a string holding a number
Parsable(m) == IF m.str THEN float(m.s).ok ELSE FALSE

\* the instant a match stands for, T being the reference time
MatchInstant(m, T) ==
    IF check.class = "XPathDelta"
    THEN T + float(m.s).n * UnitSeconds(check.unit)
    ELSE float(m.s).n

\* C8: the absolute variant returns the minimum of the matches parsed as UTC
\* timestamps, the relative variant the minimum of T plus each match parsed
\* as an offset in the configured unit; both return nothing iff there are no
\* matches; a match that is not a string or not a parsable number makes
\* check raise TemporaryCheckError.
C8_MinimumOfMatches ==
    XPathCalled =>
        IF matches = <<>> THEN result = None
        ELSE IF \E i \in 1..Len(matches) : ~Parsable(matches[i])
             THEN result = Raise("TemporaryCheckError")
             ELSE /\ result.tag = "return"
                  /\ (\A i \in 1..Len(matches) : float(matches[i].s).kind = "num")
                        => result = Instant(Min({MatchInstant(matches[i], timestamp) :
                                                    i \in 1..Len(matches)}))

\* C9: a Periodic check that create() constructed returns exactly T + delta
\* for every reference time T and never fails; a create() call with an
\* unsupported unit or an unusable value fails with ConfigurationError and
\* with no other error.
C9_PeriodicNeverFailsOnceCreated ==
    /\ (check.class = "Periodic" /\ result # NoResult)
          => result = Instant(timestamp + check.delta)
    /\ (check = NoCheck /\ result.tag = "raise")
          => (result.create = "Periodic" => result.exc = "ConfigurationError")

(***************************************************************************)
(* Statelessness.                                                          *)
(***************************************************************************)
\* what check() of the instance answers on the present state of its source
Outcome ==
    CASE check.class = "Kodi"               -> Kodi_check(check, reply)
      [] check.class = "KodiIdleTime"       -> KodiIdleTime_check(check, reply)
      [] check.class = "LogindSessionsIdle" -> LogindSessionsIdle_check(check, sessions)
      [] check.class = "SystemdTimer"       -> SystemdTimer_check(check, units, now)
      [] check.class = "File"               -> File_check(check, file)
      [] check.class = "Command"            -> Command_check(check, proc)
      [] check.class = "Periodic"           -> Periodic_check(check, timestamp)
      [] check.class \in {"XPath", "XPathDelta"} -> XPath_check(check, matches, timestamp)

\* C10: no call of check() changes the configuration captured at
\* construction, and the outcome of each call depends only on the state of
\* the external source at that call and on the reference time, never on the
\* outcomes or the number of earlier calls.
C10_Stateless ==
    /\ [][check # NoCheck => check' = check]_vars
    /\ []((check # NoCheck /\ result # NoResult) => result = Outcome)

\* a second call on one File check, answering for the present file content
C10_Witness ==
    /\ check.class = "File"
    /\ calls >= 2
    /\ file.exists
    /\ result.tag = "return"

====
